---- MODULE Spec2Model ----
(***************************************************************************)
(* A model of the user-management service of src/main.py: the pydantic     *)
(* models UserBase / UserCreate / UserResponse with their validators, the  *)
(* JSON snapshot store (load_db, save_db) and the four request handlers    *)
(* (create_user, get_user, list_user, delete_user).                        *)
(*                                                                         *)
(* Representation.  A Python str is a sequence of one-character strings    *)
(* (a code point outside ASCII is named by a longer token, "u0663").       *)
(* None is <<"None">>, a date <<"date", y, m, d>>, an int <<"int", n>>.  The   *)
(* dict users_db keeps insertion order, so it is a sequence of             *)
(* [k |-> key, v |-> record].  A file is NoFile or the sequence of JSON    *)
(* tokens written to it so far, so that a partly written file is a value   *)
(* of the model.                                                           *)
(***************************************************************************)
EXTENDS Integers, Sequences, FiniteSets, TLC

VARIABLES
    users_db,      \* the module-level dict users_db (main.py:124)
    file,          \* content of DB_PATH, users_db.json
    tmp,           \* content of DB_PATH.with_suffix(".tmp")
    pc,            \* boot, idle, save_open, save_write, done or crashed
    call,          \* the handler (or load_db) that is inside save_db
    response,      \* the response to the request just handled (pc = done)
    today,         \* date.today()
    next_uuid,     \* how many uuid4() values have been drawn
    phone_number,  \* the value handed to the phone_number field
    phone_result   \* what validating it gave

vars == <<users_db, file, tmp, pc, call, response, today, next_uuid,
          phone_number, phone_result>>

None == <<"None">>

----------------------------------------------------------------------------
(* Characters and the character classes of the patterns.                   *)

AsciiDigit == {"0", "1", "2", "3", "4", "5", "6", "7", "8", "9"}
NonZeroDigit == AsciiDigit \ {"0"}
\* \d matches every Unicode decimal digit, in Python's re on a str and in
\* the Rust regex engine behind pydantic's pattern= alike.
UnicodeDigit == {"u0663"}
AnyDigit == AsciiDigit \cup UnicodeDigit
Upper == {"A", "B", "C", "D", "E", "F", "G", "H", "I", "J", "K", "L", "M",
          "N", "O", "P", "Q", "R", "S", "T", "U", "V", "W", "X", "Y", "Z"}
Lower == {"a", "b", "c", "d", "e", "f", "g", "h", "i", "j", "k", "l", "m",
          "n", "o", "p", "q", "r", "s", "t", "u", "v", "w", "x", "y", "z"}
Letter == Upper \cup Lower
Space == {" ", "\t", "\n"}
Special == {"!", "@", "#", "$", "%", "^", "&", "*", "(", ")", ",", ".", "?",
            "\"", ":", "{", "}", "|", "<", ">"}

AllIn(s, class) == \A i \in 1..Len(s) : s[i] \in class
SomeIn(s, class) == \E i \in 1..Len(s) : s[i] \in class

----------------------------------------------------------------------------
(* UserBase.phone_number: the field pattern and validate_phone.            *)

FieldMinRest == 1
FieldMaxRest == 14
PhoneMinDigits == 10
PhoneMaxDigits == 15

StripPlus(s) == IF Len(s) > 0 /\ s[1] = "+" THEN Tail(s) ELSE s

\* Field(None, pattern=r"^\+?[1-9]\d{1,14}$"); the Rust engine's $ matches
\* at the end of the text only.
PhonePattern(s) ==
    LET d == StripPlus(s) IN
        /\ Len(d) >= 1 + FieldMinRest
        /\ Len(d) <= 1 + FieldMaxRest
        /\ d[1] \in NonZeroDigit
        /\ AllIn(Tail(d), AnyDigit)

\* one digit fewer let through
validate_phone_nine(s) ==
    LET d == StripPlus(s)
        e == IF Len(d) > 0 /\ d[Len(d)] = "\n" THEN SubSeq(d, 1, Len(d) - 1) ELSE d
    IN  /\ Len(e) >= PhoneMinDigits - 1
        /\ Len(e) <= PhoneMaxDigits
        /\ AllIn(e, AnyDigit)

\* re.match(r"^\+?\d{10,15}$", value); Python's $ also matches before one
\* trailing newline.
validate_phone(s) ==
    LET d == StripPlus(s)
        e == IF Len(d) > 0 /\ d[Len(d)] = "\n" THEN SubSeq(d, 1, Len(d) - 1) ELSE d
    IN  /\ Len(e) >= PhoneMinDigits
        /\ Len(e) <= PhoneMaxDigits
        /\ AllIn(e, AnyDigit)

\* The verdict on an Optional[str] phone_number: the pattern constraint, then
\* the field validator; None passes both.
PhoneAccepted(v) == v = None \/ (PhonePattern(v) /\ validate_phone(v))

----------------------------------------------------------------------------
(* The other field rules of UserBase and UserCreate.                       *)

NameMinLen == 3
NameMaxLen == 100
UsernameMinLen == 3
UsernameMaxLen == 30
PlaceMinLen == 2
PlaceMaxLen == 100
PasswordMinLen == 8
PasswordMaxLen == 128

\* full_name: Field(..., min_length=3, max_length=100, pattern=r"^[a-zA-Z\s]+$")
FullNameOk(v) ==
    /\ v # None
    /\ Len(v) >= NameMinLen /\ Len(v) <= NameMaxLen
    /\ AllIn(v, Letter \cup Space)

\* The last index of "@" in s, 0 when there is none.
LastAt(s) ==
    IF \E i \in 1..Len(s) : s[i] = "@"
    THEN CHOOSE i \in 1..Len(s) : s[i] = "@" /\ \A j \in (i + 1)..Len(s) : s[j] # "@"
    ELSE 0

\* value.split('@')[-1]
Domain(s) == SubSeq(s, LastAt(s) + 1, Len(s))

\* EmailStr: one "@", something before it, and a dotted domain after it.  The
\* addresses of this model have lower-case ASCII domains, which EmailStr's
\* normalisation leaves as they are.
EmailSyntaxOk(s) ==
    /\ Cardinality({i \in 1..Len(s) : s[i] = "@"}) = 1
    /\ LastAt(s) > 1
    /\ LET d == Domain(s) IN
           /\ Len(d) >= 3
           /\ d[1] # "." /\ d[Len(d)] # "."
           /\ SomeIn(d, {"."})

S_gmail == <<"g", "m", "a", "i", "l", ".", "c", "o", "m">>
S_hotmail == <<"h", "o", "t", "m", "a", "i", "l", ".", "c", "o", "m">>
valid_domains == {S_gmail, S_hotmail}

validate_emails(s) == Domain(s) \in valid_domains

EmailOk(v) == v # None /\ EmailSyntaxOk(v) /\ validate_emails(v)

\* username: Field(None, min_length=3, max_length=30, pattern=r"^[a-zA-Z0-9_]+$")
UsernameOk(v) ==
    \/ v = None
    \/ /\ Len(v) >= UsernameMinLen /\ Len(v) <= UsernameMaxLen
       /\ AllIn(v, Letter \cup AsciiDigit \cup {"_"})

\* country, city: Field(None, min_length=2, max_length=100)
PlaceOk(v) == v = None \/ (Len(v) >= PlaceMinLen /\ Len(v) <= PlaceMaxLen)

\* gender: Optional[Literal["male", "female", "other"]]
GenderOk(v) == v \in {None, <<"male">>, <<"female">>, <<"other">>}

\* password: Field(..., min_length=8, max_length=128) and validate_password
validate_password(v) ==
    /\ SomeIn(v, Upper)
    /\ SomeIn(v, AsciiDigit)
    /\ SomeIn(v, Special)

PasswordOk(v) ==
    /\ v # None
    /\ Len(v) >= PasswordMinLen /\ Len(v) <= PasswordMaxLen
    /\ validate_password(v)

----------------------------------------------------------------------------
(* Dates: a date is <<"date", year, month, day>>.                          *)

IsDate(v) == Len(v) = 4 /\ v[1] = "date"

DigitChars == <<"0", "1", "2", "3", "4", "5", "6", "7", "8", "9">>
DigitVal(c) == (CHOOSE i \in 1..Len(DigitChars) : DigitChars[i] = c) - 1

Pad2(n) == <<DigitChars[(n \div 10) + 1], DigitChars[(n % 10) + 1]>>
Pad4(n) == Pad2(n \div 100) \o Pad2(n % 100)

\* date.isoformat(), what model_dump(mode="json") writes for a date
IsoFormat(d) == Pad4(d[2]) \o <<"-">> \o Pad2(d[3]) \o <<"-">> \o Pad2(d[4])

Num2(s, i) == DigitVal(s[i]) * 10 + DigitVal(s[i + 1])

IsLeap(y) == (y % 4 = 0 /\ y % 100 # 0) \/ y % 400 = 0
DaysIn(y, m) ==
    IF m = 2 THEN (IF IsLeap(y) THEN 29 ELSE 28)
    ELSE IF m \in {4, 6, 9, 11} THEN 30 ELSE 31

\* Does the str s parse as a YYYY-MM-DD date (pydantic's date from a string)?
IsIsoDate(s) ==
    /\ Len(s) = 10
    /\ s[5] = "-" /\ s[8] = "-"
    /\ \A i \in {1, 2, 3, 4, 6, 7, 9, 10} : s[i] \in AsciiDigit
    /\ LET y == Num2(s, 1) * 100 + Num2(s, 3)
           m == Num2(s, 6)
           d == Num2(s, 9)
       IN  y >= 1 /\ m >= 1 /\ m <= 12 /\ d >= 1 /\ d <= DaysIn(y, m)

ParseIso(s) == <<"date", Num2(s, 1) * 100 + Num2(s, 3), Num2(s, 6), Num2(s, 9)>>

\* date_of_birth: Optional[date], given a date, a str or None
DateOk(v) == v = None \/ IsDate(v) \/ IsIsoDate(v)
ToDate(v) == IF v = None \/ IsDate(v) THEN v ELSE ParseIso(v)

\* UserBase.age, for a date of birth that is not None
Years(dob, now) ==
    LET years == now[2] - dob[2] IN
        IF now[3] < dob[3] \/ (now[3] = dob[3] /\ now[4] < dob[4])
        THEN years - 1
        ELSE years

\* A Python int n is <<"int", n>>, so that it can stand where None can.
PyInt(n) == <<"int", n>>

\* UserBase.age; an int, or None when there is no date of birth
age(u, now) ==
    IF u.date_of_birth # None THEN PyInt(Years(u.date_of_birth, now)) ELSE None

----------------------------------------------------------------------------
(* The models: a dict (keyword arguments, a dumped model, a JSON object)   *)
(* is a function from field names, a model instance a record.              *)

BaseFields == {"full_name", "email", "phone_number", "username",
               "date_of_birth", "gender", "country", "city",
               "accept_marketing_emails"}
UserCreateFields == BaseFields \cup {"password"}
UserResponseFields == BaseFields \cup {"user_id"}

\* The field's default: False for the flag, None for every Optional field.
Default(f) == IF f = "accept_marketing_emails" THEN FALSE ELSE None
Get(d, f) == IF f \in DOMAIN d THEN d[f] ELSE Default(f)

\* The rules UserBase puts on the keyword arguments d.
UserBaseOk(d) ==
    /\ {"full_name", "email"} \subseteq DOMAIN d
    /\ FullNameOk(d.full_name)
    /\ EmailOk(d.email)
    /\ PhoneAccepted(Get(d, "phone_number"))
    /\ UsernameOk(Get(d, "username"))
    /\ DateOk(Get(d, "date_of_birth"))
    /\ GenderOk(Get(d, "gender"))
    /\ PlaceOk(Get(d, "country"))
    /\ PlaceOk(Get(d, "city"))

\* UserCreate: does the request body d validate (else FastAPI answers 422)?
UserCreateOk(d) ==
    /\ UserBaseOk(d)
    /\ "password" \in DOMAIN d
    /\ PasswordOk(d.password)

\* UserResponse(**d): does it validate?  Keys that are no field of the model
\* (password, age) are ignored.
UserResponseOk(d) ==
    /\ UserBaseOk(d)
    /\ "user_id" \in DOMAIN d
    /\ d.user_id # None

\* city never copied
UserResponseWithoutCity(d) ==
    [f \in UserResponseFields |->
        IF f = "date_of_birth" THEN ToDate(Get(d, f))
        ELSE IF f = "city" THEN None ELSE Get(d, f)]

\* UserResponse(**d), for d that validates
UserResponse(d) ==
    [f \in UserResponseFields |->
        IF f = "date_of_birth" THEN ToDate(Get(d, f)) ELSE Get(d, f)]

\* model.model_dump(): the fields and the computed field age
model_dump(u, now) ==
    [f \in DOMAIN u \cup {"age"} |-> IF f = "age" THEN age(u, now) ELSE u[f]]

\* model.model_dump(mode="json"): the same, a date as its ISO string
model_dump_json(u, now) ==
    [f \in DOMAIN u \cup {"age"} |->
        IF f = "age" THEN age(u, now)
        ELSE IF f = "date_of_birth" /\ u[f] # None THEN IsoFormat(u[f])
        ELSE u[f]]

----------------------------------------------------------------------------
(* An insertion-ordered dict: a sequence of [k |-> key, v |-> value].      *)

Keys(d) == {d[i].k : i \in 1..Len(d)}
Values(d) == [i \in 1..Len(d) |-> d[i].v]
Lookup(d, key) == (CHOOSE i \in 1..Len(d) : d[i].k = key)

\* d.get(key): <<value>>, or <<>> for None
DictGet(d, key) == IF key \in Keys(d) THEN <<d[Lookup(d, key)].v>> ELSE <<>>

\* d[key] = value: in place when the key is there, else appended
DictSet(d, key, value) ==
    IF key \in Keys(d)
    THEN [d EXCEPT ![Lookup(d, key)] = [k |-> key, v |-> value]]
    ELSE Append(d, [k |-> key, v |-> value])

\* del d[key]
DictDel(d, key) ==
    LET i == Lookup(d, key) IN SubSeq(d, 1, i - 1) \o SubSeq(d, i + 1, Len(d))

----------------------------------------------------------------------------
(* The JSON text of a file, as the sequence of its tokens.                 *)

NoFile == <<[tok |-> "absent"]>>
Open == [tok |-> "{"]
Close == [tok |-> "}"]
ListOpen == [tok |-> "["]
ListClose == [tok |-> "]"]
Garbage == [tok |-> "garbage"]
\* "key": {...}, a member whose value is an object
Member(key, obj) == [tok |-> "member", k |-> key, v |-> obj]
\* "key": 5, a member whose value is no object
ScalarMember(key) == [tok |-> "scalar", k |-> key]

\* json.dump(d, f, indent=2): the tokens written for the dict d of dicts
JsonDump(d) ==
    <<Open>> \o [i \in 1..Len(d) |-> Member(d[i].k, d[i].v)] \o <<Close>>

IsMember(t) == t.tok \in {"member", "scalar"}

\* Is the text valid JSON?  json.load raises JSONDecodeError if not.
JsonValid(text) ==
    /\ Len(text) >= 2
    /\ \/ /\ text[1] = Open /\ text[Len(text)] = Close
          /\ \A i \in 2..(Len(text) - 1) : IsMember(text[i])
       \/ text = <<ListOpen, ListClose>>

\* Is the root of the valid JSON text an object (else raw.items() raises)?
RootIsObject(text) == text[1] = Open

RECURSIVE MembersToDict(_, _)
MembersToDict(members, d) ==
    IF members = <<>> THEN d
    ELSE MembersToDict(Tail(members), DictSet(d, Head(members).k, Head(members)))

\* json.load of an object: the dict of its members (a repeated key keeps its
\* first place and its last value); each value is still the member token.
JsonLoad(text) == MembersToDict(SubSeq(text, 2, Len(text) - 1), <<>>)

----------------------------------------------------------------------------
(* Inputs.                                                                 *)

MaxUuids == 2

S_jane_doe == <<"J", "a", "n", "e", " ", "D", "o", "e">>
S_bob == <<"B", "o", "b">>
S_al == <<"A", "l">>
S_jane_gmail == <<"j", "a", "n", "e", "@", "g", "m", "a", "i", "l", ".", "c", "o", "m">>
S_Jane_gmail == <<"J", "a", "n", "e", "@", "g", "m", "a", "i", "l", ".", "c", "o", "m">>
S_bob_hotmail == <<"b", "o", "b", "@", "h", "o", "t", "m", "a", "i", "l", ".", "c", "o", "m">>
S_jane_yahoo == <<"j", "a", "n", "e", "@", "y", "a", "h", "o", "o", ".", "c", "o", "m">>
S_phone == <<"+", "9", "2", "3", "0", "0", "1", "2", "3", "4", "5", "6", "7">>
S_phone0 == <<"0", "1", "2", "3", "4", "5", "6", "7", "8", "9">>
S_secret == <<"S", "e", "c", "r", "e", "t", "1", "!">>
S_weak == <<"s", "e", "c", "r", "e", "t", "1", "!">>
S_PK == <<"P", "K">>
S_US == <<"U", "S">>
S_lahore == <<"L", "a", "h", "o", "r", "e">>
S_jane_1 == <<"j", "a", "n", "e", "_", "1">>

\* The days the clock shows, in order.
Days == << <<"date", 2024, 6, 15>>, <<"date", 2024, 6, 16>> >>
\* Born 2000-06-16: 23 on the first day, 24 on the second.  Born 2024-03-10: 0.
Dob2000 == <<"date", 2000, 6, 16>>
Dob2024 == <<"date", 2024, 3, 10>>

Body(name, email, phone, username, dob, gender, country, city, accept, pw) ==
    [full_name |-> name, email |-> email, phone_number |-> phone,
     username |-> username, date_of_birth |-> dob, gender |-> gender,
     country |-> country, city |-> city, accept_marketing_emails |-> accept,
     password |-> pw]

B_jane == Body(S_jane_doe, S_jane_gmail, S_phone, S_jane_1, Dob2000,
               <<"female">>, S_PK, S_lahore, TRUE, S_secret)
B_Jane == Body(S_jane_doe, S_Jane_gmail, None, None, None,
               None, None, None, FALSE, S_secret)
B_bob == Body(S_bob, S_bob_hotmail, None, None, Dob2024,
              <<"male">>, S_PK, None, FALSE, S_secret)
\* the address of B_jane again, on another person
B_jane2 == Body(S_bob, S_jane_gmail, None, None, None,
                None, S_US, None, FALSE, S_secret)
B_yahoo == [B_Jane EXCEPT !.email = S_jane_yahoo]
B_weak == [B_bob EXCEPT !.password = S_weak]
B_phone0 == [B_bob EXCEPT !.phone_number = S_phone0]
B_short == [B_bob EXCEPT !.full_name = S_al]

\* The request bodies POST /users is called with.
Bodies == {B_jane, B_Jane, B_bob, B_jane2, B_yahoo, B_weak, B_phone0, B_short}

\* str(uuid.uuid4()): the n-th value drawn; no value is drawn twice.
Uuid(n) == <<"uuid4", n>>
Malformed == <<"not-a-uuid">>
\* Path(..., pattern=r"^[0-9a-f-]{36}$")
UuidShaped(id) == Len(id) = 2 /\ id[1] = "uuid4"
Ids == {Uuid(n) : n \in 1..MaxUuids} \cup {Malformed}

\* The query parameters GET /user/ is called with.
CountryParams == {None, <<>>, S_PK, S_US}
AgeParams == {None, PyInt(0), PyInt(23)}

----------------------------------------------------------------------------
(* Responses.                                                              *)

Resp(op, status, detail, body) ==
    [op |-> op, status |-> status, detail |-> detail, body |-> body]
NoResponse == Resp("none", 0, "", <<>>)
NoCall == [op |-> "none", doc |-> <<>>, result |-> NoResponse]

----------------------------------------------------------------------------
(* save_db, step by step.                                                  *)

\* {k: v.model_dump(mode="json") for k, v in users.items()}, as JSON text
Snapshot(users, now) ==
    JsonDump([i \in 1..Len(users) |->
                 [k |-> users[i].k, v |-> model_dump_json(users[i].v, now)]])

\* The caller reaches save_db(users): nothing is written yet.
EnterSave(op, users, result) ==
    /\ pc' = "save_open"
    /\ call' = [op |-> op, doc |-> Snapshot(users, today), result |-> result]

\* save_db returned to the caller named in call.
Return ==
    /\ call' = NoCall
    /\ IF call.op = "load"
       THEN pc' = "idle" /\ users_db' = <<>> /\ UNCHANGED response
       ELSE pc' = "done" /\ response' = call.result /\ UNCHANGED users_db

\* save_db raised: load_db passes the error on and the import fails; a
\* handler's caller answers 500.
Raise ==
    /\ call' = NoCall
    /\ UNCHANGED users_db
    /\ IF call.op = "load"
       THEN pc' = "crashed" /\ UNCHANGED response
       ELSE pc' = "done" /\ response' = Resp(call.op, 500, "Internal Server Error", <<>>)

\* the snapshot opened for writing in place
SaveOpenTarget ==
    /\ pc = "save_open"
    /\ file' = <<>>
    /\ pc' = "save_write"
    /\ UNCHANGED <<users_db, tmp, call, response, today, next_uuid,
                   phone_number, phone_result>>

\* open(temp_path, "w"): the temporary file is created or truncated
SaveOpen ==
    /\ pc = "save_open"
    /\ tmp' = <<>>
    /\ pc' = "save_write"
    /\ UNCHANGED <<users_db, file, call, response, today, next_uuid,
                   phone_number, phone_result>>

\* json.dump writes the next piece of the text
SaveWrite ==
    /\ pc = "save_write"
    /\ Len(tmp) < Len(call.doc)
    /\ tmp' = Append(tmp, call.doc[Len(tmp) + 1])
    /\ UNCHANGED <<users_db, file, pc, call, response, today, next_uuid,
                   phone_number, phone_result>>

\* temp_path.replace(DB_PATH), after the with block closed the file
SaveReplace ==
    /\ pc = "save_write"
    /\ Len(tmp) = Len(call.doc)
    /\ file' = tmp
    /\ tmp' = NoFile
    /\ Return
    /\ UNCHANGED <<today, next_uuid, phone_number, phone_result>>

\* open, a write, the close or the replace raises OSError (disk full, ...)
SaveFail ==
    /\ pc \in {"save_open", "save_write"}
    /\ Raise
    /\ UNCHANGED <<file, tmp, today, next_uuid, phone_number, phone_result>>

----------------------------------------------------------------------------
(* load_db, at import.                                                     *)

\* Can UserResponse(**v) be built from the member token m of the JSON object?
MemberLoads(m) == m.tok = "member" /\ UserResponseOk(m.v)

\* {k: UserResponse(**v) for k, v in raw.items()}
Loaded(text) ==
    LET raw == JsonLoad(text) IN
        [i \in 1..Len(raw) |-> [k |-> raw[i].k, v |-> UserResponse(raw[i].v.v)]]

LoadDb ==
    /\ pc = "boot"
    /\ UNCHANGED <<file, tmp, response, today, next_uuid, phone_number, phone_result>>
    /\ IF file = NoFile
       THEN EnterSave("load", <<>>, NoResponse) /\ UNCHANGED users_db
       ELSE IF file = <<>>
       THEN pc' = "idle" /\ users_db' = <<>> /\ UNCHANGED call
       ELSE IF ~JsonValid(file)
       THEN EnterSave("load", <<>>, NoResponse) /\ UNCHANGED users_db
       ELSE IF ~RootIsObject(file)
       THEN pc' = "crashed" /\ UNCHANGED <<users_db, call>>
       ELSE IF \E i \in 1..Len(JsonLoad(file)) : ~MemberLoads(JsonLoad(file)[i].v)
       THEN pc' = "crashed" /\ UNCHANGED <<users_db, call>>
       ELSE users_db' = Loaded(file) /\ pc' = "idle" /\ UNCHANGED call

\* The process is stopped and started again: main.py is imported anew.
Restart ==
    /\ pc \in {"idle", "crashed"}
    /\ pc' = "boot"
    /\ users_db' = <<>>
    /\ UNCHANGED <<file, tmp, call, response, today, next_uuid,
                   phone_number, phone_result>>

----------------------------------------------------------------------------
(* The handlers.                                                           *)

\* the check left out
EmailTakenNever(users, email) == FALSE

\* the whole person compared, not the address alone
EmailTakenSamePerson(users, email) ==
    \E i \in 1..Len(users) :
        users[i].v.email = email /\ users[i].v.full_name = S_jane_doe

\* user.email in [u.email for u in users_db.values()]
EmailTaken(users, email) == \E i \in 1..Len(users) : users[i].v.email = email

\* user_data = user.model_dump(); user_data["user_id"] = user_id
UserData(body, user_id, now) ==
    LET d == model_dump(body, now) IN
        [f \in DOMAIN d \cup {"user_id"} |-> IF f = "user_id" THEN user_id ELSE d[f]]

create_user(body) ==
    /\ pc = "idle"
    /\ UNCHANGED <<file, tmp, today, phone_number, phone_result>>
    /\ IF ~UserCreateOk(body)
       THEN /\ response' = Resp("create", 422, "Unprocessable Entity", <<>>)
            /\ pc' = "done"
            /\ UNCHANGED <<users_db, call, next_uuid>>
       ELSE IF EmailTaken(users_db, body.email)
       THEN /\ response' = Resp("create", 400, "Email already registered", <<>>)
            /\ pc' = "done"
            /\ UNCHANGED <<users_db, call, next_uuid>>
       ELSE /\ next_uuid < MaxUuids
            /\ next_uuid' = next_uuid + 1
            /\ LET user_id == Uuid(next_uuid + 1)
                   new_user == UserResponse(UserData(body, user_id, today))
               IN  /\ users_db' = DictSet(users_db, user_id, new_user)
                   /\ EnterSave("create", users_db',
                                Resp("create", 201, "", <<model_dump_json(new_user, today)>>))
            /\ UNCHANGED response

get_user(user_id) ==
    /\ pc = "idle"
    /\ pc' = "done"
    /\ UNCHANGED <<users_db, file, tmp, call, today, next_uuid,
                   phone_number, phone_result>>
    /\ IF ~UuidShaped(user_id)
       THEN response' = Resp("get", 422, "Unprocessable Entity", <<>>)
       ELSE LET user == DictGet(users_db, user_id) IN
            IF user = <<>>
            THEN response' = Resp("get", 404, "User not found", <<>>)
            ELSE response' = Resp("get", 200, "", <<model_dump_json(user[1], today)>>)

\* u.age and u.age >= min_age: an age of None or of 0 is falsy
AtLeast(u, min_age, now) ==
    LET a == age(u, now) IN a # None /\ a[2] # 0 /\ a[2] >= min_age[2]
AtMost(u, max_age, now) ==
    LET a == age(u, now) IN a # None /\ a[2] # 0 /\ a[2] <= max_age[2]

Listed(users, country, min_age, max_age, now) ==
    LET all == Values(users)
        ByCountry(u) == u.country = country
        ByMin(u) == AtLeast(u, min_age, now)
        ByMax(u) == AtMost(u, max_age, now)
        \* if country: None and "" are falsy
        f1 == IF country # None /\ country # <<>> THEN SelectSeq(all, ByCountry) ELSE all
        f2 == IF min_age # None THEN SelectSeq(f1, ByMin) ELSE f1
        f3 == IF max_age # None THEN SelectSeq(f2, ByMax) ELSE f2
    IN  f3

list_user(country, min_age, max_age) ==
    /\ pc = "idle"
    /\ pc' = "done"
    /\ UNCHANGED <<users_db, file, tmp, call, today, next_uuid,
                   phone_number, phone_result>>
    /\ LET out == Listed(users_db, country, min_age, max_age, today) IN
           response' = Resp("list", 200, "",
                            [i \in 1..Len(out) |-> model_dump_json(out[i], today)])

\* the index changed and never saved
delete_user_unsaved(user_id) ==
    /\ pc = "idle"
    /\ pc' = "done"
    /\ UNCHANGED <<file, tmp, call, today, next_uuid, phone_number, phone_result>>
    /\ IF user_id \notin Keys(users_db)
       THEN response' = Resp("delete", 404, "User not found", <<>>) /\ UNCHANGED users_db
       ELSE response' = Resp("delete", 204, "", <<>>) /\ users_db' = DictDel(users_db, user_id)

delete_user(user_id) ==
    /\ pc = "idle"
    /\ UNCHANGED <<file, tmp, today, next_uuid, phone_number, phone_result>>
    /\ IF user_id \notin Keys(users_db)
       THEN /\ response' = Resp("delete", 404, "User not found", <<>>)
            /\ pc' = "done"
            /\ UNCHANGED <<users_db, call>>
       ELSE /\ users_db' = DictDel(users_db, user_id)
            /\ EnterSave("delete", users_db', Resp("delete", 204, "", <<>>))
            /\ UNCHANGED response

\* The response has gone out; the server takes the next request.
NextRequest ==
    /\ pc = "done"
    /\ pc' = "idle"
    /\ response' = NoResponse
    /\ UNCHANGED <<users_db, file, tmp, call, today, next_uuid,
                   phone_number, phone_result>>

\* The date changes.
Tick ==
    /\ pc = "idle"
    /\ \E i \in 1..(Len(Days) - 1) : today = Days[i] /\ today' = Days[i + 1]
    /\ UNCHANGED <<users_db, file, tmp, pc, call, response, next_uuid,
                   phone_number, phone_result>>

----------------------------------------------------------------------------
(* The service: main.py is imported where there is no users_db.json yet,   *)
(* then requests arrive one at a time (no handler awaits).                 *)

Init ==
    /\ users_db = <<>>
    /\ file = NoFile
    /\ tmp = NoFile
    /\ pc = "boot"
    /\ call = NoCall
    /\ response = NoResponse
    /\ today = Days[1]
    /\ next_uuid = 0
    /\ phone_number = None
    /\ phone_result = "unused"

Next ==
    \/ LoadDb
    \/ SaveOpen
    \/ SaveWrite
    \/ SaveReplace
    \/ SaveFail
    \/ Restart
    \/ NextRequest
    \/ Tick
    \/ \E body \in Bodies : create_user(body)
    \/ \E id \in Ids : get_user(id)
    \/ \E id \in Ids : delete_user(id)
    \/ \E country \in CountryParams, min_age \in AgeParams, max_age \in AgeParams :
           list_user(country, min_age, max_age)

Spec == Init /\ [][Next]_vars

----------------------------------------------------------------------------
(* load_db alone: main.py is imported where users_db.json is anything.     *)

MaxMembers == 2

\* What save_db writes for a record, and ways for it to be damaged.
Stored(body, n) == model_dump_json(UserResponse(UserData(body, Uuid(n), Days[1])), Days[1])
Without(obj, f) == [g \in DOMAIN obj \ {f} |-> obj[g]]

Objects ==
    {Stored(B_jane, 1), Stored(B_bob, 2),
     Without(Stored(B_jane, 1), "full_name"),
     Without(Stored(B_jane, 1), "email"),
     Without(Stored(B_jane, 1), "user_id"),
     [Stored(B_jane, 1) EXCEPT !.email = S_jane_yahoo],
     [Stored(B_bob, 2) EXCEPT !.phone_number = S_phone0],
     [Stored(B_bob, 2) EXCEPT !.full_name = S_al]}

MembersAt(n) == {Member(Uuid(n), obj) : obj \in Objects} \cup {ScalarMember(Uuid(n))}

RECURSIVE MemberLists(_)
MemberLists(n) ==
    IF n = 0 THEN {<<>>}
    ELSE {<<>>} \cup {Append(ms, m) : ms \in {l \in MemberLists(n - 1) : Len(l) = n - 1},
                                      m \in MembersAt(n)}
                \cup MemberLists(n - 1)

InitialFiles ==
    {NoFile, <<>>, <<Garbage>>, <<ListOpen, ListClose>>}
    \cup {<<Open>> \o ms \o <<Close>> : ms \in MemberLists(MaxMembers)}
    \cup {<<Open>> \o ms : ms \in MemberLists(MaxMembers)}

InitLoad ==
    /\ users_db = <<>>
    /\ file \in InitialFiles
    /\ tmp = NoFile
    /\ pc = "boot"
    /\ call = NoCall
    /\ response = NoResponse
    /\ today = Days[1]
    /\ next_uuid = 0
    /\ phone_number = None
    /\ phone_result = "unused"

NextLoad ==
    \/ LoadDb
    \/ SaveOpen
    \/ SaveWrite
    \/ SaveReplace
    \/ SaveFail

SpecLoad == InitLoad /\ [][NextLoad]_vars

----------------------------------------------------------------------------
(* The phone_number field alone, over strings around its length limits.    *)

MaxPhoneLen == 16

PhoneChars == {"+", "0", "5", "u0663", "a", "\n"}

\* n sevens, the one at pos (if any) replaced by ch, after the prefix
PhoneInput(prefix, n, pos, ch) ==
    prefix \o [i \in 1..n |-> IF i = pos THEN ch ELSE "7"]

PhoneInputs ==
    {PhoneInput(prefix, n, pos, ch) :
        prefix \in {<<>>, <<"+">>}, n \in 0..MaxPhoneLen,
        pos \in 0..MaxPhoneLen, ch \in PhoneChars}

InitPhone ==
    /\ users_db = <<>>
    /\ file = NoFile
    /\ tmp = NoFile
    /\ pc = "validate"
    /\ call = NoCall
    /\ response = NoResponse
    /\ today = Days[1]
    /\ next_uuid = 0
    /\ phone_number \in PhoneInputs
    /\ phone_result = "pending"

\* pydantic validates the field: accepted, or a validation error
ValidatePhone ==
    /\ pc = "validate"
    /\ phone_result = "pending"
    /\ phone_result' = IF PhoneAccepted(phone_number) THEN "accepted" ELSE "rejected"
    /\ UNCHANGED <<users_db, file, tmp, pc, call, response, today, next_uuid,
                   phone_number>>

NextPhone == ValidatePhone

SpecPhone == InitPhone /\ [][NextPhone]_vars

----------------------------------------------------------------------------
(* Properties.                                                             *)

Emails(users) == [i \in 1..Len(users) |-> users[i].v.email]
IsSaving == pc \in {"save_open", "save_write"}

\* A complete snapshot: an object of members that each load as a record.
CompleteSnapshot(text) ==
    /\ JsonValid(text)
    /\ RootIsObject(text)
    /\ \A i \in 2..(Len(text) - 1) : MemberLoads(text[i])

\* C1: no two records of users_db have the same email, whatever sequence of
\* create_user and delete_user calls ran (the failed ones included) from the
\* empty index or from one loaded from a snapshot save_db wrote.
C1_EmailUnique ==
    \A i, j \in 1..Len(users_db) :
        i # j => users_db[i].v.email # users_db[j].v.email

\* Two records are held and the create of the second ended in a storage error.
C1_Witness ==
    /\ pc = "done"
    /\ response.op = "create" /\ response.status = 500
    /\ Len(users_db) = 2

\* C2: when create_user or delete_user completes successfully, the records of
\* the snapshot file (keys and stored field values) are those of users_db.
C2_SnapshotConverges ==
    [][(pc # "done" /\ pc' = "done" /\ response'.op \in {"create", "delete"}
            /\ response'.status \in {201, 204})
        => /\ CompleteSnapshot(file')
           /\ {Loaded(file')[i] : i \in 1..Len(Loaded(file'))}
                = {users_db'[i] : i \in 1..Len(users_db')}]_vars

\* A delete succeeded and left one record, which is the one on disk.
C2_Witness ==
    /\ pc = "done"
    /\ response.op = "delete" /\ response.status = 204
    /\ Len(users_db) = 1
    /\ CompleteSnapshot(file) /\ Len(file) = 3
    /\ file[2].k = users_db[1].k

\* C3: the snapshot file changes only by the replace step, to the complete new
\* snapshot that the temporary file then holds; it is a complete snapshot at
\* all times; a save that fails leaves it as it was.
C3_ReplaceOnWrite ==
    [][/\ file' # file => (pc = "save_write" /\ tmp = call.doc /\ file' = call.doc)
       /\ file' = NoFile \/ CompleteSnapshot(file')
       /\ (IsSaving /\ (pc' = "crashed" \/ (pc' = "done" /\ response'.status = 500)))
            => file' = file]_vars

\* A save failed part-way: the temporary file is cut short, the snapshot whole
\* and older than the index.
C3_Witness ==
    /\ pc = "done" /\ response.status = 500
    /\ tmp # NoFile /\ Len(tmp) >= 2 /\ ~JsonValid(tmp)
    /\ CompleteSnapshot(file)
    /\ file # Snapshot(users_db, today)

\* C4: create_user with a valid body whose email is, character for character,
\* that of a record in the index answers 400 "Email already registered" and
\* leaves users_db and the snapshot file as they were.
C4_DuplicateRejected ==
    [][\A body \in Bodies :
          (/\ pc = "idle"
           /\ (pc' = "save_open" \/ response'.op = "create")
           /\ \E i \in 1..Len(users_db) : users_db[i].v.email = body.email
           /\ UserCreateOk(body)
           /\ create_user(body))
          => /\ response' = Resp("create", 400, "Email already registered", <<>>)
             /\ users_db' = users_db
             /\ file' = file
             /\ tmp' = tmp]_vars

\* A duplicate was refused while jane@ and Jane@ (which differ in case only)
\* are both held.
C4_Witness ==
    /\ pc = "done"
    /\ response.op = "create" /\ response.status = 400
    /\ Len(users_db) = 2
    /\ {Emails(users_db)[i] : i \in 1..2} = {S_jane_gmail, S_Jane_gmail}

\* C5: load_db of a zero-byte file returns the empty mapping and leaves the
\* file holding the empty document.
C5_ZeroByteHealed ==
    [][(pc = "boot" /\ file = <<>> /\ pc' = "idle")
        => (users_db' = <<>> /\ file' = JsonDump(<<>>))]_vars

\* The file is there, not empty, and not a document of records.
NotTheExpectedDocument(text) ==
    /\ text # NoFile
    /\ text # <<>>
    /\ ~CompleteSnapshot(text)

\* C6: load_db of a file that is not the expected document never raises: it
\* goes on to overwrite the file with the empty document.
C6_CorruptNeverFatal ==
    [][(pc = "boot" /\ NotTheExpectedDocument(file))
        => (pc' = "save_open" /\ call'.op = "load" /\ call'.doc = JsonDump(<<>>))]_vars

\* C7: no record of the snapshot file has an age or a password field.
C7_NoAgeNoPassword ==
    \/ file = NoFile
    \/ \A i \in 1..Len(file) :
          file[i].tok = "member"
            => ("age" \notin DOMAIN file[i].v /\ "password" \notin DOMAIN file[i].v)

\* The filter of the claim: the country if one is given, both age bounds
\* inclusive, a record without date of birth out as soon as a bound is given.
RefKeep(u, country, min_age, max_age, now) ==
    /\ (country # None /\ country # <<>>) => u.country = country
    /\ min_age # None
         => (u.date_of_birth # None /\ Years(u.date_of_birth, now) >= min_age[2])
    /\ max_age # None
         => (u.date_of_birth # None /\ Years(u.date_of_birth, now) <= max_age[2])

RefListed(users, country, min_age, max_age, now) ==
    LET Keep(u) == RefKeep(u, country, min_age, max_age, now)
    IN  SelectSeq(Values(users), Keep)

\* C8: list_user returns, in insertion order, exactly the records the filter
\* of the claim keeps.
C8_ListFilter ==
    [][\A country \in CountryParams, min_age \in AgeParams, max_age \in AgeParams :
          list_user(country, min_age, max_age)
          => LET out == RefListed(users_db, country, min_age, max_age, today) IN
                 response'.body = [i \in 1..Len(out) |-> model_dump_json(out[i], today)]]_vars

\* The JSON value of field f of the model instance or request body r.
AsJson(r, f) ==
    IF f = "date_of_birth" /\ r[f] # None THEN IsoFormat(r[f]) ELSE r[f]

\* The response record out shows body's fields, without the password.
Echoes(out, body) ==
    /\ \A f \in BaseFields : out[f] = AsJson(body, f)
    /\ "password" \notin DOMAIN out

\* A valid body with a new email: the record goes in under a new key, equal to
\* the body field by field, and the 201 response that is prepared shows it.
C9_Create ==
    \A body \in Bodies :
        (/\ pc = "idle"
         /\ (pc' = "save_open" \/ response'.op = "create")
         /\ ~\E i \in 1..Len(users_db) : users_db[i].v.email = body.email
         /\ UserCreateOk(body)
         /\ create_user(body))
        => /\ Len(users_db') = Len(users_db) + 1
           /\ SubSeq(users_db', 1, Len(users_db)) = users_db
           /\ LET e == users_db'[Len(users_db')] IN
                 /\ e.k \notin Keys(users_db)
                 /\ e.v.user_id = e.k
                 /\ \A f \in BaseFields : e.v[f] = body[f]
                 /\ call'.op = "create"
                 /\ call'.result.status = 201
                 /\ call'.result.body[1].user_id = e.k
                 /\ Echoes(call'.result.body[1], body)

\* Creates and deletes of other ids leave a record where it is.
C9_Kept ==
    \A i \in 1..Len(users_db) :
        (/\ users_db' # users_db
         /\ pc' # "boot"
         /\ ~(pc = "idle" /\ delete_user(users_db[i].k)))
        => \E j \in 1..Len(users_db') : users_db'[j] = users_db[i]

\* get_user of a key of the index answers 200 with that record, its age
\* computed on the day.
C9_Get ==
    \A id \in Ids :
        (pc = "idle" /\ response'.op = "get" /\ id \in Keys(users_db) /\ get_user(id))
        => /\ response'.status = 200
           /\ LET u == users_db[Lookup(users_db, id)].v
                  out == response'.body[1]
              IN  /\ out.user_id = id
                  /\ Echoes(out, u)
                  /\ out.age = age(u, today)

AfterPlus(s) == IF s # <<>> /\ Head(s) = "+" THEN Tail(s) ELSE s

\* C10 as stated: phone_number is accepted exactly when it is an optional "+"
\* and then 10 to 15 digits 0-9, the first one included.
C10_ReferenceRule ==
    phone_result \in {"accepted", "rejected"}
    => (phone_result = "accepted"
          <=> LET d == AfterPlus(phone_number) IN
                  /\ Len(d) \in 10..15
                  /\ \A i \in 1..Len(d) : d[i] \in AsciiDigit)

\* C10 amended: the first digit is one of 1-9, and the later ones are what
\* \d matches.
C10_FirstDigitNonZero ==
    phone_result \in {"accepted", "rejected"}
    => (phone_result = "accepted"
          <=> LET d == AfterPlus(phone_number) IN
                  /\ Len(d) \in 10..15
                  /\ d[1] \in {"1", "2", "3", "4", "5", "6", "7", "8", "9"}
                  /\ \A i \in 2..Len(d) : d[i] \in AnyDigit)

\* A "+" and fifteen digits were accepted.
C10_Witness ==
    /\ phone_result = "accepted"
    /\ Len(phone_number) = 16
    /\ phone_number[1] = "+"

====
